---- MODULE Spec2Model ----
(***************************************************************************)
(* Model of the replication core of burrow: the CRDT primitives            *)
(* (src/src/crdt), the channel state (src/src/types/mod.rs), the message   *)
(* DAG (src/src/dag/mod.rs) and the sync engine (src/src/tui/mod.rs,       *)
(* src/src/dag/gossip.rs, src/src/storage/mod.rs).                         *)
(***************************************************************************)
EXTENDS Integers, Sequences, FiniteSets, TLC

VARIABLES
    sets,        \* ORSet spec: replica -> ORSet.elements (element -> set of tags)
    nextTag,     \* next fresh add-tag (Uuid::now_v7 in ORSet::add)
    observed,    \* history: replica -> element -> tags deleted there by remove()
    reg,         \* LWW spec: register index -> LWWRegister
    regOp,       \* LWW spec: the last call made on a register
    chan,        \* Channel spec: replica -> Channel state, or NoChannel
    dag,         \* DAG spec: one MessageDAG
    result,      \* DAG spec: the last add_message call and what it returned
    app,         \* Sync spec: replica -> App state (storage, dag, clocks, channels)
    net,         \* Sync spec: frames published and not yet delivered
    nextId,      \* Sync spec: next fresh MessageId (Uuid::now_v7)
    lost,        \* Sync spec: frames dropped by the transport so far
    renamed,     \* Channel spec: replica -> its latest set_name (value, timestamp)
    clock,       \* HLC spec: one HybridLogicalClock
    clockOp,     \* HLC spec: the last call, what it returned, what was returned before
    vc,          \* VectorClock spec: clock index -> VectorClock.clocks
    vcOp         \* VectorClock spec: the last call and its operands before it

vars == <<sets, nextTag, observed, reg, regOp, chan, dag, result, app, net, nextId, lost,
          renamed, clock, clockOp, vc, vcOp>>

orsetVars == <<sets, nextTag, observed>>
lwwVars == <<reg, regOp>>
chanVars == <<chan, renamed>>
dagVars == <<dag, result>>
syncVars == <<app, net, nextId, lost>>
hlcVars == <<clock, clockOp>>
vcVars == <<vc, vcOp>>

(***************************************************************************)
(* Bounds of the model.                                                    *)
(***************************************************************************)
NumPeers == 2
MaxTags == 3
MaxPhysical == 1
MaxLogical == 2

Peers == 1..NumPeers
Tags == 1..MaxTags
EmptyMap == <<>>

(***************************************************************************)
(* crdt/mod.rs: Timestamp, ordered lexicographically by the derived Ord    *)
(* (physical, logical, peer_id).                                           *)
(***************************************************************************)
Timestamp(physical, logical, peer_id) ==
    [physical |-> physical, logical |-> logical, peer_id |-> peer_id]

TsLess(a, b) ==
    \/ a.physical < b.physical
    \/ a.physical = b.physical /\ a.logical < b.logical
    \/ a.physical = b.physical /\ a.logical = b.logical /\ a.peer_id < b.peer_id

Max2(a, b) == IF a >= b THEN a ELSE b

(***************************************************************************)
(* crdt/or_set.rs                                                          *)
(***************************************************************************)
ORSet_new == EmptyMap

ORSet_tags(s, element) == IF element \in DOMAIN s THEN s[element] ELSE {}

ORSet_add(s, element, tag) ==
    [x \in DOMAIN s \cup {element} |->
        IF x = element THEN ORSet_tags(s, element) \cup {tag} ELSE s[x]]

ORSet_remove(s, element) == [x \in DOMAIN s \ {element} |-> s[x]]

\* A remove_tag that leaves the entry in the map when its last tag goes.
ORSet_remove_tag_keep_entry(s, element, tag) ==
    IF element \in DOMAIN s
    THEN [x \in DOMAIN s |-> IF x = element THEN s[x] \ {tag} ELSE s[x]]
    ELSE s

ORSet_remove_tag(s, element, tag) ==
    IF element \in DOMAIN s
    THEN IF s[element] \ {tag} = {}
         THEN [x \in DOMAIN s \ {element} |-> s[x]]
         ELSE [x \in DOMAIN s |-> IF x = element THEN s[x] \ {tag} ELSE s[x]]
    ELSE s

ORSet_contains(s, element) == element \in DOMAIN s /\ s[element] # {}

ORSet_len(s) == Cardinality({x \in DOMAIN s : s[x] # {}})

ORSet_elements(s) == {x \in DOMAIN s : s[x] # {}}

\* A merge that only extends the entries the receiver still has (get_mut
\* instead of entry().or_insert_with()).
ORSet_merge_known_only(s, other) ==
    [x \in DOMAIN s |-> s[x] \cup ORSet_tags(other, x)]

ORSet_merge(s, other) ==
    [x \in DOMAIN s \cup DOMAIN other |-> ORSet_tags(s, x) \cup ORSet_tags(other, x)]

(***************************************************************************)
(* ORSet specification: two replicas of one set of PeerIds.                *)
(***************************************************************************)
InitOther_ORSet ==
    /\ reg = <<>> /\ regOp = <<>> /\ chan = <<>>
    /\ dag = <<>> /\ result = <<>>
    /\ app = <<>> /\ net = {} /\ nextId = 0 /\ lost = 0
    /\ clock = <<>> /\ clockOp = <<>> /\ vc = <<>> /\ vcOp = <<>>
    /\ renamed = <<>>

InitORSet ==
    /\ sets = [r \in Peers |-> ORSet_new]
    /\ nextTag = 1
    /\ observed = [r \in Peers |-> [x \in Peers |-> {}]]
    /\ InitOther_ORSet

SetAdd(r, x) ==
    /\ nextTag <= MaxTags
    /\ sets' = [sets EXCEPT ![r] = ORSet_add(@, x, nextTag)]
    /\ nextTag' = nextTag + 1
    /\ UNCHANGED <<observed, lwwVars, chanVars, dagVars, syncVars, hlcVars, vcVars>>

SetRemove(r, x) ==
    /\ sets' = [sets EXCEPT ![r] = ORSet_remove(@, x)]
    /\ observed' = [observed EXCEPT ![r][x] = @ \cup ORSet_tags(sets[r], x)]
    /\ UNCHANGED <<nextTag, lwwVars, chanVars, dagVars, syncVars, hlcVars, vcVars>>

\* remove_tag; `result` keeps the last such call and the tags it found.
SetRemoveTag(r, x, tag) ==
    /\ sets' = [sets EXCEPT ![r] = ORSet_remove_tag(@, x, tag)]
    /\ result' = [r |-> r, element |-> x, tag |-> tag,
                  before |-> ORSet_tags(sets[r], x)]
    /\ UNCHANGED <<nextTag, observed, dag, lwwVars, chanVars, syncVars, hlcVars, vcVars>>

SetMerge(r, q) ==
    /\ r # q
    /\ sets' = [sets EXCEPT ![r] = ORSet_merge(@, sets[q])]
    /\ UNCHANGED <<nextTag, observed, lwwVars, chanVars, dagVars, syncVars, hlcVars, vcVars>>

NextORSet ==
    \/ \E r \in Peers, x \in Peers : SetAdd(r, x)
    \/ \E r \in Peers, x \in Peers : SetRemove(r, x)
    \/ \E r \in Peers, q \in Peers : SetMerge(r, q)
    \/ \E r \in Peers, x \in Peers, tag \in Tags : SetRemoveTag(r, x, tag)

SpecORSet == InitORSet /\ [][NextORSet]_vars

\* C8: OR-Set add-wins. When replica p has removed x (deleting the tags it then
\* saw) and replica q holds a tag for x that p never observed, then after the
\* mutual merge p.merge(q); q.merge(p) x is contained on both replicas.
C8_AddWins ==
    \A p \in Peers, q \in Peers, x \in Peers :
        ( /\ p # q
          /\ observed[p][x] # {}
          /\ \E t \in ORSet_tags(sets[q], x) : t \notin observed[p][x] )
        => LET p2 == ORSet_merge(sets[p], sets[q])
               q2 == ORSet_merge(sets[q], p2)
           IN  ORSet_contains(p2, x) /\ ORSet_contains(q2, x)

\* Replica 1 added x = 1 (tag 1) and removed it, replica 2 added it with tag 2,
\* and both have merged: x is present on both through tag 2 alone.
C8_Witness ==
    /\ observed[1][1] = {1}
    /\ ORSet_tags(sets[1], 1) = {2}
    /\ ORSet_tags(sets[2], 1) = {2}

\* C9: OR-Set observed remove. An element is present at a replica only through
\* a tag that this replica has not deleted by remove(): merging with a replica
\* that holds nothing but tags the remover already observed leaves x absent.
C9_ObservedRemove ==
    \A r \in Peers, x \in Peers :
        ORSet_contains(sets[r], x)
            => \E t \in ORSet_tags(sets[r], x) : t \notin observed[r][x]

(***************************************************************************)
(* crdt/lww_register.rs                                                    *)
(***************************************************************************)
LWWRegister_new(value, timestamp) == [value |-> value, timestamp |-> timestamp]

\* A set that also accepts an equal timestamp (>= instead of >).
LWWRegister_set_non_strict(r, value, timestamp) ==
    IF ~TsLess(timestamp, r.timestamp)
    THEN [value |-> value, timestamp |-> timestamp]
    ELSE r

LWWRegister_set(r, value, timestamp) ==
    IF TsLess(r.timestamp, timestamp)
    THEN [value |-> value, timestamp |-> timestamp]
    ELSE r

LWWRegister_merge(r, other) ==
    IF TsLess(r.timestamp, other.timestamp)
    THEN [value |-> other.value, timestamp |-> other.timestamp]
    ELSE r

(***************************************************************************)
(* LWW specification: registers built by LWWRegister::new from arbitrary   *)
(* values and timestamps, then set and merged in any order.                *)
(***************************************************************************)
Names == {"alpha", "beta"}
Regs == {1, 2}    \* the receiver and the argument of merge
Timestamps ==
    {Timestamp(p, l, id) : p \in 0..MaxPhysical, l \in 0..MaxLogical, id \in Peers}
Registers == {LWWRegister_new(v, t) : v \in Names, t \in Timestamps}

InitOther_LWW ==
    /\ sets = <<>> /\ nextTag = 0 /\ observed = <<>> /\ chan = <<>>
    /\ dag = <<>> /\ result = <<>>
    /\ app = <<>> /\ net = {} /\ nextId = 0 /\ lost = 0
    /\ clock = <<>> /\ clockOp = <<>> /\ vc = <<>> /\ vcOp = <<>>
    /\ renamed = <<>>

InitLWW ==
    /\ reg \in [Regs -> Registers]
    /\ regOp = [kind |-> "new"]
    /\ InitOther_LWW

RegSet(i, value, timestamp) ==
    /\ reg' = [reg EXCEPT ![i] = LWWRegister_set(@, value, timestamp)]
    /\ regOp' = [kind |-> "set", i |-> i, before |-> reg[i],
                 value |-> value, timestamp |-> timestamp]
    /\ UNCHANGED <<orsetVars, chanVars, dagVars, syncVars, hlcVars, vcVars>>

RegMerge(i, j) ==
    /\ reg' = [reg EXCEPT ![i] = LWWRegister_merge(@, reg[j])]
    /\ regOp' = [kind |-> "merge", i |-> i, before |-> reg[i],
                 value |-> reg[j].value, timestamp |-> reg[j].timestamp]
    /\ UNCHANGED <<orsetVars, chanVars, dagVars, syncVars, hlcVars, vcVars>>

NextLWW ==
    \/ \E i \in Regs, v \in Names, t \in Timestamps : RegSet(i, v, t)
    \/ \E i \in Regs, j \in Regs : RegMerge(i, j)

SpecLWW == InitLWW /\ [][NextLWW]_vars

\* C10: LWW register rule. After set(v, t) or merge(other) the register holds
\* (incoming value, incoming timestamp) when the incoming timestamp is strictly
\* greater than the one it had, and is unchanged otherwise; its timestamp never
\* decreases.
C10_LwwRule ==
    regOp.kind \in {"set", "merge"} =>
        /\ reg[regOp.i] =
              IF TsLess(regOp.before.timestamp, regOp.timestamp)
              THEN [value |-> regOp.value, timestamp |-> regOp.timestamp]
              ELSE regOp.before
        /\ ~TsLess(reg[regOp.i].timestamp, regOp.before.timestamp)

\* A set with a different value and exactly the current timestamp was discarded.
C10_Witness ==
    /\ regOp.kind = "set"
    /\ regOp.timestamp = regOp.before.timestamp
    /\ regOp.value # regOp.before.value
    /\ reg[regOp.i] = regOp.before

(***************************************************************************)
(* crdt/hlc.rs. `now` is the reading of SystemTime::now() in milliseconds, *)
(* which differs between replicas and can go backwards.                    *)
(***************************************************************************)
HybridLogicalClock_new(peer_id, now) ==
    [peer_id |-> peer_id, latest |-> Timestamp(now, 0, peer_id)]

\* A tick that follows the wall clock whenever it differs (# instead of >).
HybridLogicalClock_tick_wall_clock(hlc, now) ==
    IF now # hlc.latest.physical
    THEN [hlc EXCEPT !.latest = Timestamp(now, 0, hlc.peer_id)]
    ELSE [hlc EXCEPT !.latest.logical = @ + 1]

HybridLogicalClock_tick(hlc, now) ==
    IF now > hlc.latest.physical
    THEN [hlc EXCEPT !.latest = Timestamp(now, 0, hlc.peer_id)]
    ELSE [hlc EXCEPT !.latest.logical = @ + 1]

\* An update that never looks at the remote logical counter.
HybridLogicalClock_update_local_logical(hlc, remote, now) ==
    LET new_physical == Max2(Max2(now, hlc.latest.physical), remote.physical)
        new_logical ==
            IF new_physical > Max2(hlc.latest.physical, remote.physical) THEN 0
            ELSE hlc.latest.logical + 1
    IN  [hlc EXCEPT !.latest = Timestamp(new_physical, new_logical, hlc.peer_id)]

HybridLogicalClock_update(hlc, remote, now) ==
    LET new_physical == Max2(Max2(now, hlc.latest.physical), remote.physical)
        new_logical ==
            IF new_physical > Max2(hlc.latest.physical, remote.physical) THEN 0
            ELSE IF hlc.latest.physical = remote.physical
                 THEN Max2(hlc.latest.logical, remote.logical) + 1
            ELSE IF hlc.latest.physical > remote.physical
                 THEN hlc.latest.logical + 1
            ELSE remote.logical + 1
    IN  [hlc EXCEPT !.latest = Timestamp(new_physical, new_logical, hlc.peer_id)]

(***************************************************************************)
(* types/mod.rs: Channel                                                   *)
(***************************************************************************)
NoChannel == [id |-> 0]

\* No set_name call has been made at the replica.
NoRename == [value |-> "", set |-> FALSE]

Channel_new(id, name, creator, now, tag) ==
    LET hlc == HybridLogicalClock_tick(HybridLogicalClock_new(creator, now), now)
    IN  [id |-> id,
         name |-> LWWRegister_new(name, hlc.latest),
         members |-> ORSet_add(ORSet_new, creator, tag),
         hlc |-> hlc]

Channel_placeholder(id, name, creator, now) ==
    LET hlc == HybridLogicalClock_tick(HybridLogicalClock_new(creator, now), now)
    IN  [id |-> id,
         name |-> LWWRegister_new(name, hlc.latest),
         members |-> ORSet_new,
         hlc |-> hlc]

Channel_get_name(c) == c.name.value

Channel_get_members(c) == ORSet_elements(c.members)

Channel_set_name(c, new_name, now) ==
    LET hlc == HybridLogicalClock_tick(c.hlc, now)
    IN  [c EXCEPT !.hlc = hlc,
                  !.name = LWWRegister_set(c.name, new_name, hlc.latest)]

Channel_add_member(c, peer_id, tag) ==
    [c EXCEPT !.members = ORSet_add(@, peer_id, tag)]

Channel_remove_member(c, peer_id) ==
    [c EXCEPT !.members = ORSet_remove(@, peer_id)]

\* A merge that leaves the local HLC as it was.
Channel_merge_keep_hlc(c, other, now) ==
    [c EXCEPT !.name = LWWRegister_merge(@, other.name),
              !.members = ORSet_merge(@, other.members)]

Channel_merge(c, other, now) ==
    [c EXCEPT !.name = LWWRegister_merge(@, other.name),
              !.members = ORSet_merge(@, other.members),
              !.hlc = HybridLogicalClock_update(@, other.hlc.latest, now)]

\* tui/mod.rs, ChannelAnnounced / ChannelStateReceived: merge into the local
\* copy when the id is known, otherwise store the received state as it is.
ChannelReceived(local, channel, now) ==
    IF local.id = channel.id THEN Channel_merge(local, channel, now) ELSE channel

(***************************************************************************)
(* Channel specification: one channel id, created at one replica, learned  *)
(* by the others from the creator's announced state, then renamed, its     *)
(* members changed, and states exchanged in any order.                     *)
(***************************************************************************)
Physical == 0..MaxPhysical

InitOther_Channel ==
    /\ sets = <<>> /\ observed = <<>> /\ reg = <<>> /\ regOp = <<>>
    /\ dag = <<>> /\ result = <<>>
    /\ app = <<>> /\ net = {} /\ nextId = 0 /\ lost = 0
    /\ clock = <<>> /\ clockOp = <<>> /\ vc = <<>> /\ vcOp = <<>>

InitChannel ==
    /\ chan = [r \in Peers |-> NoChannel]
    /\ renamed = [r \in Peers |-> NoRename]
    /\ nextTag = 1
    /\ InitOther_Channel

ChanCreate(r, name, now) ==
    /\ \A q \in Peers : chan[q] = NoChannel
    /\ chan' = [chan EXCEPT ![r] = Channel_new(1, name, r, now, nextTag)]
    /\ nextTag' = nextTag + 1
    /\ UNCHANGED <<renamed, sets, observed, lwwVars, dagVars, syncVars, hlcVars, vcVars>>

ChanSetName(r, name, now) ==
    /\ chan[r] # NoChannel
    /\ Channel_set_name(chan[r], name, now).hlc.latest.logical <= MaxLogical
    /\ chan' = [chan EXCEPT ![r] = Channel_set_name(@, name, now)]
    /\ renamed' = [renamed EXCEPT ![r] =
                      [value |-> name, set |-> TRUE,
                       timestamp |-> Channel_set_name(chan[r], name, now).hlc.latest]]
    /\ UNCHANGED <<sets, nextTag, observed, lwwVars, dagVars, syncVars, hlcVars, vcVars>>

ChanAddMember(r, p) ==
    /\ chan[r] # NoChannel
    /\ nextTag <= MaxTags
    /\ chan' = [chan EXCEPT ![r] = Channel_add_member(@, p, nextTag)]
    /\ nextTag' = nextTag + 1
    /\ UNCHANGED <<renamed, sets, observed, lwwVars, dagVars, syncVars, hlcVars, vcVars>>

ChanRemoveMember(r, p) ==
    /\ chan[r] # NoChannel
    /\ chan' = [chan EXCEPT ![r] = Channel_remove_member(@, p)]
    /\ UNCHANGED <<renamed, sets, nextTag, observed, lwwVars, dagVars, syncVars, hlcVars, vcVars>>

ChanReceive(r, q, now) ==
    /\ r # q
    /\ chan[q] # NoChannel
    /\ ChannelReceived(chan[r], chan[q], now).hlc.latest.logical <= MaxLogical
    /\ chan' = [chan EXCEPT ![r] = ChannelReceived(@, chan[q], now)]
    /\ UNCHANGED <<renamed, sets, nextTag, observed, lwwVars, dagVars, syncVars, hlcVars, vcVars>>

NextChannel ==
    \/ \E r \in Peers, n \in Names, now \in Physical : ChanCreate(r, n, now)
    \/ \E r \in Peers, n \in Names, now \in Physical : ChanSetName(r, n, now)
    \/ \E r \in Peers, p \in Peers : ChanAddMember(r, p)
    \/ \E r \in Peers, p \in Peers : ChanRemoveMember(r, p)
    \/ \E r \in Peers, q \in Peers, now \in Physical : ChanReceive(r, q, now)

SpecChannel == InitChannel /\ [][NextChannel]_vars

\* C2: channel convergence. For two replicas a and b holding the channel (b's
\* copy obtained from a's announced state), after a.merge(b) and b.merge(a)
\* get_name() is equal on both and the sets of get_members() are equal.
C2_ChannelConvergence ==
    \A a \in Peers, b \in Peers, now1 \in Physical, now2 \in Physical :
        (a # b /\ chan[a] # NoChannel /\ chan[b] # NoChannel)
        => LET a2 == Channel_merge(chan[a], chan[b], now1)
               b2 == Channel_merge(chan[b], a2, now2)
           IN  /\ Channel_get_name(a2) = Channel_get_name(b2)
               /\ Channel_get_members(a2) = Channel_get_members(b2)

(***************************************************************************)
(* dag/mod.rs: MessageDAG.  A message is the record of the fields the DAG  *)
(* reads: id, channel_id, lamport_timestamp, parent_hashes (a Vec).        *)
(***************************************************************************)
MaxMsgs == 3
MaxLamport == 2
MaxParents == 2
NumChannels == 2
MaxCalls == 4

MsgIds == 1..MaxMsgs
Channels == 1..NumChannels

Range(seq) == {seq[i] : i \in DOMAIN seq}

MapGet(map, key) == IF key \in DOMAIN map THEN map[key] ELSE {}

MessageDAG_new == [messages |-> EmptyMap, children |-> EmptyMap, heads |-> EmptyMap]

\* add_message, lines 38-45: the positions in parent_hashes whose id is not stored.
MissingParents(d, message) ==
    {i \in DOMAIN message.parent_hashes :
        message.parent_hashes[i] \notin DOMAIN d.messages}

MissingParent(message, i) ==
    [kind |-> "MissingParent", message_id |-> message.id,
     missing_parent |-> message.parent_hashes[i]]

\* add_message, lines 47-52: the parents leave the heads of the message's channel.
RemoveParentsFromHeads(d, message) ==
    [c \in DOMAIN d.heads |->
        IF c = message.channel_id
        THEN d.heads[c] \ Range(message.parent_hashes)
        ELSE d.heads[c]]

\* add_message, lines 54-69: link the children, add the head, store the message.
Admit(d, message, heads1) ==
    [messages |-> [x \in DOMAIN d.messages \cup {message.id} |->
                      IF x = message.id THEN message ELSE d.messages[x]],
     children |-> [x \in DOMAIN d.children \cup Range(message.parent_hashes) |->
                      IF x \in Range(message.parent_hashes)
                      THEN MapGet(d.children, x) \cup {message.id}
                      ELSE d.children[x]],
     heads |-> [c \in DOMAIN heads1 \cup {message.channel_id} |->
                      IF c = message.channel_id
                      THEN MapGet(heads1, c) \cup {message.id}
                      ELSE heads1[c]]]

\* An add_message that leaves the parents among the heads.
add_message_keep_parent_heads(d, message) ==
    LET missing == MissingParents(d, message)
    IN  IF missing # {}
        THEN [dag |-> d,
              ret |-> MissingParent(message,
                          CHOOSE i \in missing : \A j \in missing : i <= j)]
        ELSE [dag |-> Admit(d, message, d.heads), ret |-> [kind |-> "Ok"]]

\* An add_message that reports the last missing parent instead of the first.
add_message_last_missing(d, message) ==
    LET missing == MissingParents(d, message)
    IN  IF missing # {}
        THEN [dag |-> d,
              ret |-> MissingParent(message,
                          CHOOSE i \in missing : \A j \in missing : i >= j)]
        ELSE [dag |-> Admit(d, message, RemoveParentsFromHeads(d, message)),
              ret |-> [kind |-> "Ok"]]

\* An add_message without the parent check of lines 38-45.
add_message_unchecked(d, message) ==
    [dag |-> Admit(d, message, RemoveParentsFromHeads(d, message)),
     ret |-> [kind |-> "Ok"]]

\* add_message returns the DAG after the call and the Result of the call.
add_message(d, message) ==
    LET missing == MissingParents(d, message)
    IN  IF missing # {}
        THEN [dag |-> d,
              ret |-> MissingParent(message,
                          CHOOSE i \in missing : \A j \in missing : i <= j)]
        ELSE [dag |-> Admit(d, message, RemoveParentsFromHeads(d, message)),
              ret |-> [kind |-> "Ok"]]

get_heads(d, channel_id) == MapGet(d.heads, channel_id)

has_message(d, message_id) == message_id \in DOMAIN d.messages

all_message_ids(d) == DOMAIN d.messages

\* A find_missing_messages that looks at the first parent of a message only.
find_missing_messages_first_parent(d) ==
    {p \in {d.messages[x].parent_hashes[1] :
                x \in {y \in DOMAIN d.messages : d.messages[y].parent_hashes # <<>>}} :
        p \notin DOMAIN d.messages}

find_missing_messages(d) ==
    {p \in UNION {Range(d.messages[x].parent_hashes) : x \in DOMAIN d.messages} :
        p \notin DOMAIN d.messages}

(***************************************************************************)
(* dag/mod.rs: get_ordered_messages / topological_sort.  The code iterates *)
(* hash maps, whose order is unspecified, and sorts with a stable sort:    *)
(* the operators return the set of every sequence an iteration order can   *)
(* produce.                                                                *)
(***************************************************************************)
\* The comparator of both sort_by calls, without the then_with on the id.
MessageLess_lamport_only(a, b) == a.lamport_timestamp < b.lamport_timestamp

\* The comparator of both sort_by calls: lamport_timestamp, then id.
MessageLess(a, b) ==
    \/ a.lamport_timestamp < b.lamport_timestamp
    \/ a.lamport_timestamp = b.lamport_timestamp /\ a.id < b.id

\* sort_by on a Vec collected in an arbitrary order: every arrangement of
\* ids in which no element is followed by a smaller one.
RECURSIVE SortByLamport(_, _)
SortByLamport(messages, ids) ==
    IF ids = {} THEN {<<>>}
    ELSE UNION {
            {<<x>> \o rest : rest \in SortByLamport(messages, ids \ {x})} :
            x \in {y \in ids :
                    \A z \in ids : ~MessageLess(messages[z], messages[y])}}

\* How many times parent_id occurs in message.parent_hashes.
ParentCount(message, parent_id) ==
    Cardinality({i \in DOMAIN message.parent_hashes :
                    message.parent_hashes[i] = parent_id})

\* The while loop of topological_sort, lines 154-183.
RECURSIVE KahnLoop(_, _, _, _, _)
KahnLoop(messages, message_ids, queue, in_degree, sorted) ==
    IF queue = <<>> THEN {sorted}
    ELSE LET message_id == Head(queue)
             degree == [x \in message_ids |->
                           in_degree[x] - ParentCount(messages[x], message_id)]
             processable == {x \in message_ids :
                                /\ ParentCount(messages[x], message_id) > 0
                                /\ degree[x] = 0}
         IN  UNION {
                KahnLoop(messages, message_ids, Tail(queue) \o p, degree,
                         Append(sorted, messages[message_id])) :
                p \in SortByLamport(messages, processable)}

\* A sort by (lamport_timestamp, id) alone, with no in-degrees.
topological_sort_by_key_only(messages, message_ids) ==
    {[i \in DOMAIN s |-> messages[s[i]]] : s \in SortByLamport(messages, message_ids)}

topological_sort(messages, message_ids) ==
    LET in_degree == [x \in message_ids |->
                        Cardinality({i \in DOMAIN messages[x].parent_hashes :
                                        messages[x].parent_hashes[i] \in message_ids})]
        roots == {x \in message_ids : in_degree[x] = 0}
    IN  UNION {KahnLoop(messages, message_ids, queue, in_degree, <<>>) :
                queue \in SortByLamport(messages, roots)}

get_ordered_messages(d, channel_id) ==
    topological_sort(d.messages,
        {x \in DOMAIN d.messages : d.messages[x].channel_id = channel_id})

(***************************************************************************)
(* DAG specification: add_message called with arbitrary messages, in any   *)
(* order and repeatedly, on a DAG that starts empty.  `result` keeps the   *)
(* last call: its number, the message, the DAG before it and the value     *)
(* returned.                                                               *)
(***************************************************************************)
ParentSeqs == UNION {[1..n -> MsgIds] : n \in 0..MaxParents}

Messages ==
    {[id |-> i, channel_id |-> c, lamport_timestamp |-> l, parent_hashes |-> ps] :
        i \in MsgIds, c \in Channels, l \in 1..MaxLamport, ps \in ParentSeqs}

InitOther_Dag ==
    /\ sets = <<>> /\ nextTag = 0 /\ observed = <<>> /\ reg = <<>> /\ regOp = <<>>
    /\ chan = <<>>
    /\ app = <<>> /\ net = {} /\ nextId = 0 /\ lost = 0
    /\ clock = <<>> /\ clockOp = <<>> /\ vc = <<>> /\ vcOp = <<>>
    /\ renamed = <<>>

InitDag ==
    /\ dag = MessageDAG_new
    /\ result = [n |-> 0, ret |-> [kind |-> "None"]]
    /\ InitOther_Dag

\* MessageIds are fresh Uuid::now_v7 values and a Message is never changed after
\* Message::new: an id that is stored is only ever presented again with the
\* message stored under it.
AddMessage(message) ==
    /\ result.n < MaxCalls
    /\ has_message(dag, message.id) => dag.messages[message.id] = message
    /\ dag' = add_message(dag, message).dag
    /\ result' = [n |-> result.n + 1, message |-> message, before |-> dag,
                  ret |-> add_message(dag, message).ret]
    /\ UNCHANGED <<orsetVars, lwwVars, chanVars, syncVars, hlcVars, vcVars>>

\* A call whose id is not stored yet (successful calls have pairwise distinct ids).
AddFresh(message) ==
    /\ ~has_message(dag, message.id)
    /\ AddMessage(message)

NextDag == \E message \in Messages : AddMessage(message)

NextDagFresh == \E message \in Messages : AddFresh(message)

SpecDag == InitDag /\ [][NextDag]_vars

SpecDagFresh == InitDag /\ [][NextDagFresh]_vars

StoredIn(d, channel_id) ==
    {x \in DOMAIN d.messages : d.messages[x].channel_id = channel_id}

\* The index of the message with this id in a sequence of messages, 0 if absent.
Position(seq, message_id) ==
    IF \E i \in DOMAIN seq : seq[i].id = message_id
    THEN CHOOSE i \in DOMAIN seq : seq[i].id = message_id
    ELSE 0

\* The ids reached from message_id by following parent_hashes 1 to n times.
RECURSIVE Ancestors(_, _, _)
Ancestors(d, message_id, n) ==
    IF n = 0 \/ message_id \notin DOMAIN d.messages THEN {}
    ELSE LET parents == Range(d.messages[message_id].parent_hashes)
         IN  parents \cup UNION {Ancestors(d, p, n - 1) : p \in parents}

\* C3: determinism of ordering. get_ordered_messages(c) has exactly one possible
\* result for the stored messages, whatever order the hash maps are iterated in
\* and whatever order the messages were admitted in.
C3_Deterministic ==
    \A c \in Channels : Cardinality(get_ordered_messages(dag, c)) = 1

\* Two roots of channel 1 with the same lamport_timestamp, the one with the
\* greater id admitted first: the result lists them by id.
C3_Witness ==
    /\ result.n = 2
    /\ result.ret.kind = "Ok"
    /\ result.message.id = 1
    /\ DOMAIN result.before.messages = {2}
    /\ \A x \in {1, 2} :
          /\ dag.messages[x].channel_id = 1
          /\ dag.messages[x].lamport_timestamp = 1
          /\ dag.messages[x].parent_hashes = <<>>
    /\ get_ordered_messages(dag, 1) = {<<dag.messages[1], dag.messages[2]>>}

C5_Heads ==
    \A c \in Channels :
        get_heads(dag, c) =
            {x \in StoredIn(dag, c) :
                \A y \in StoredIn(dag, c) :
                    x \notin Range(dag.messages[y].parent_hashes)}

\* A merge: message 3 names the two heads 1 and 2 and is the sole head after.
C5_Witness ==
    /\ result.ret.kind = "Ok"
    /\ result.message.id = 3
    /\ result.message.parent_hashes = <<1, 2>>
    /\ result.message.channel_id = 1
    /\ get_heads(result.before, 1) = {1, 2}
    /\ get_heads(dag, 1) = {3}

\* C6: add_message(m) returns MissingParent{m.id, p} if and only if some id of
\* m.parent_hashes is not stored, p being the first such id in parent_hashes
\* order, and then the DAG (messages, children, heads) is unchanged.
C6_MissingParent ==
    result.n > 0 =>
        LET m == result.message
            absent == {i \in DOMAIN m.parent_hashes :
                          m.parent_hashes[i] \notin DOMAIN result.before.messages}
        IN  /\ (result.ret.kind = "MissingParent") <=> (absent # {})
            /\ result.ret.kind \in {"MissingParent", "Ok"}
            /\ absent # {} =>
                  /\ result.ret.message_id = m.id
                  /\ \E i \in absent :
                        /\ \A j \in absent : i <= j
                        /\ result.ret.missing_parent = m.parent_hashes[i]
                  /\ dag = result.before

\* The call names two absent parents, 3 then 2, on a DAG that holds message 1:
\* the error names 3 and the DAG is as before.
C6_Witness ==
    /\ result.n > 0
    /\ result.ret.kind = "MissingParent"
    /\ result.message.parent_hashes = <<3, 2>>
    /\ DOMAIN result.before.messages = {1}
    /\ result.ret.missing_parent = 3
    /\ dag = result.before

MaxClock == 2

VectorClock_new == <<>>

VectorClock_get(self, peer_id) ==
    IF peer_id \in DOMAIN self THEN self[peer_id] ELSE 0

VectorClock_increment(self, peer_id) ==
    [p \in DOMAIN self \cup {peer_id} |->
        IF p = peer_id THEN VectorClock_get(self, p) + 1 ELSE self[p]]

\* A merge that copies the other clock's entries over its own.
VectorClock_merge_overwrite(self, other) ==
    [p \in DOMAIN self \cup DOMAIN other |->
        IF p \in DOMAIN other THEN other[p] ELSE self[p]]

VectorClock_merge(self, other) ==
    [p \in DOMAIN self \cup DOMAIN other |->
        IF p \in DOMAIN other
        THEN Max2(VectorClock_get(self, p), other[p])
        ELSE self[p]]

\* A comparison that looks at the peers of self only.
VectorClock_happened_before_self_only(self, other) ==
    IF \E p \in DOMAIN self : self[p] > VectorClock_get(other, p)
    THEN FALSE
    ELSE \E p \in DOMAIN self : self[p] < VectorClock_get(other, p)

VectorClock_happened_before(self, other) ==
    IF \E p \in DOMAIN self : self[p] > VectorClock_get(other, p)
    THEN FALSE
    ELSE \/ \E p \in DOMAIN self : self[p] < VectorClock_get(other, p)
         \/ \E p \in DOMAIN other : p \notin DOMAIN self /\ other[p] > 0

VectorClock_concurrent(self, other) ==
    /\ ~VectorClock_happened_before(self, other)
    /\ ~VectorClock_happened_before(other, self)

(***************************************************************************)
(* Sync engine: App (tui/mod.rs), GossipManager (dag/gossip.rs) and the    *)
(* message table of Storage (storage/mod.rs).  Every NetworkCommand is a   *)
(* gossipsub publish (network/mod.rs): one frame for every other replica.  *)
(* A frame in `net` is delivered once, in any order, or dropped.           *)
(***************************************************************************)
MaxAuthored == 2
MaxLoss == 1

Others(r) == Peers \ {r}

\* A HashSet collected into a Vec: every order of its elements.
Orderings(S) == {seq \in [1..Cardinality(S) -> S] : Range(seq) = S}

\* NetworkMessage variants, one copy addressed to each receiver.
ChatMessage(to, message) ==
    [type |-> "ChatMessage", to |-> to, message |-> message]

InventoryRequest(to, channel_id) ==
    [type |-> "InventoryRequest", to |-> to, channel_id |-> channel_id]

MessageInventory(to, channel_id, message_ids) ==
    [type |-> "MessageInventory", to |-> to, channel_id |-> channel_id,
     message_ids |-> message_ids]

MessageRequest(to, channel_id, requested_ids) ==
    [type |-> "MessageRequest", to |-> to, channel_id |-> channel_id,
     requested_ids |-> requested_ids]

MessageResponse(to, channel_id, messages) ==
    [type |-> "MessageResponse", to |-> to, channel_id |-> channel_id,
     messages |-> messages]

\* Storage::store_message: a plain INSERT, an error when the id is stored.
store_message(storage, message) ==
    IF message.id \in DOMAIN storage
    THEN [storage |-> storage, ok |-> FALSE]
    ELSE [storage |-> [x \in DOMAIN storage \cup {message.id} |->
                          IF x = message.id THEN message ELSE storage[x]],
          ok |-> TRUE]

\* Storage::store_messages: INSERT OR IGNORE of each message in turn.
RECURSIVE store_messages(_, _)
store_messages(storage, messages) ==
    IF messages = <<>> THEN storage
    ELSE store_messages(store_message(storage, Head(messages)).storage,
                        Tail(messages))

\* Storage::get_channel_message_ids
get_channel_message_ids(storage, channel_id) ==
    {x \in DOMAIN storage : storage[x].channel_id = channel_id}

\* Storage::get_messages_by_ids: the stored ones, in the order requested.
RECURSIVE get_messages_by_ids(_, _)
get_messages_by_ids(storage, message_ids) ==
    IF message_ids = <<>> THEN <<>>
    ELSE (IF Head(message_ids) \in DOMAIN storage
          THEN <<storage[Head(message_ids)]>> ELSE <<>>)
         \o get_messages_by_ids(storage, Tail(message_ids))

\* The loop of MessagesReceived: add_message for each message, errors logged.
RECURSIVE AddAll(_, _)
AddAll(d, messages) ==
    IF messages = <<>> THEN d
    ELSE AddAll(add_message(d, Head(messages)).dag, Tail(messages))

\* App::new on an empty database: the default channel, created locally (its
\* fresh ChannelId is modelled by the replica's number) and not announced.
App_new(peer_id) ==
    [peer_id |-> peer_id, channels |-> {peer_id}, storage |-> EmptyMap,
     dag |-> MessageDAG_new, lamport_clock |-> 0,
     vector_clock |-> VectorClock_increment(VectorClock_new, peer_id)]

InitOther_Sync ==
    /\ sets = <<>> /\ nextTag = 0 /\ observed = <<>> /\ reg = <<>> /\ regOp = <<>>
    /\ chan = <<>> /\ dag = <<>> /\ result = <<>>
    /\ clock = <<>> /\ clockOp = <<>> /\ vc = <<>> /\ vcOp = <<>>
    /\ renamed = <<>>

InitSync ==
    /\ app = [r \in Peers |-> App_new(r)]
    /\ net = {}
    /\ nextId = 0
    /\ lost = 0
    /\ InitOther_Sync

\* A send_message that leaves parent_hashes as Message::new made it.
send_message_no_parents(a, id, c, parent_hashes) ==
    LET vector_clock == VectorClock_increment(a.vector_clock, a.peer_id)
        message == [id |-> id, channel_id |-> c, author |-> a.peer_id,
                    vector_clock |-> vector_clock,
                    lamport_timestamp |-> a.lamport_clock + 1,
                    parent_hashes |-> <<>>]
        stored == store_message(a.storage, message)
    IN  IF stored.ok
        THEN [app |-> [a EXCEPT !.lamport_clock = @ + 1,
                                !.vector_clock = vector_clock,
                                !.storage = stored.storage,
                                !.dag = add_message(@, message).dag],
              message |-> message, broadcast |-> TRUE]
        ELSE [app |-> [a EXCEPT !.lamport_clock = @ + 1,
                                !.vector_clock = vector_clock],
              message |-> message, broadcast |-> FALSE]

\* A send_message that builds the message before it increments the clocks.
send_message_stale_clocks(a, id, c, parent_hashes) ==
    LET vector_clock == VectorClock_increment(a.vector_clock, a.peer_id)
        message == [id |-> id, channel_id |-> c, author |-> a.peer_id,
                    vector_clock |-> a.vector_clock,
                    lamport_timestamp |-> a.lamport_clock,
                    parent_hashes |-> parent_hashes]
        stored == store_message(a.storage, message)
    IN  IF stored.ok
        THEN [app |-> [a EXCEPT !.lamport_clock = @ + 1,
                                !.vector_clock = vector_clock,
                                !.storage = stored.storage,
                                !.dag = add_message(@, message).dag],
              message |-> message, broadcast |-> TRUE]
        ELSE [app |-> [a EXCEPT !.lamport_clock = @ + 1,
                                !.vector_clock = vector_clock],
              message |-> message, broadcast |-> FALSE]

\* App::send_message on channel c: the App after the call, the message built
\* (its fresh id is `id`, its parents the heads in the order get_heads returned
\* them) and whether BroadcastMessage was sent. A store_message error returns
\* from the function before add_message and the broadcast.
send_message(a, id, c, parent_hashes) ==
    LET vector_clock == VectorClock_increment(a.vector_clock, a.peer_id)
        message == [id |-> id, channel_id |-> c, author |-> a.peer_id,
                    vector_clock |-> vector_clock,
                    lamport_timestamp |-> a.lamport_clock + 1,
                    parent_hashes |-> parent_hashes]
        stored == store_message(a.storage, message)
    IN  IF stored.ok
        THEN [app |-> [a EXCEPT !.lamport_clock = @ + 1,
                                !.vector_clock = vector_clock,
                                !.storage = stored.storage,
                                !.dag = add_message(@, message).dag],
              message |-> message, broadcast |-> TRUE]
        ELSE [app |-> [a EXCEPT !.lamport_clock = @ + 1,
                                !.vector_clock = vector_clock],
              message |-> message, broadcast |-> FALSE]

\* App::send_message on the selected channel c of replica r.
SendMessage(r, c) ==
    /\ nextId < MaxAuthored
    /\ c \in app[r].channels
    /\ \E parent_hashes \in Orderings(get_heads(app[r].dag, c)) :
          LET sent == send_message(app[r], nextId + 1, c, parent_hashes)
          IN  /\ app' = [app EXCEPT ![r] = sent.app]
              /\ net' = IF sent.broadcast
                        THEN net \cup {ChatMessage(p, sent.message) : p \in Others(r)}
                        ELSE net
    /\ nextId' = nextId + 1
    /\ UNCHANGED <<lost, orsetVars, lwwVars, chanVars, dagVars, hlcVars, vcVars>>

\* NetworkEvent::PeerConnected at replica r: request_inventory for every channel
\* r knows.
PeerConnected(r) ==
    /\ net' = net \cup {InventoryRequest(p, c) : p \in Others(r), c \in app[r].channels}
    /\ UNCHANGED <<app, nextId, lost, orsetVars, lwwVars, chanVars, dagVars, hlcVars, vcVars>>

\* A MessageReceived arm without the placeholder of lines 283-302.
handle_MessageReceived_no_placeholder(a, message) ==
    LET stored == store_message(a.storage, message)
    IN  IF stored.ok
        THEN [peer_id |-> a.peer_id,
              channels |-> a.channels,
              storage |-> stored.storage,
              dag |-> add_message(a.dag, message).dag,
              vector_clock |-> VectorClock_merge(a.vector_clock, message.vector_clock),
              lamport_clock |->
                  IF message.lamport_timestamp >= a.lamport_clock
                  THEN message.lamport_timestamp + 1
                  ELSE a.lamport_clock]
        ELSE a

\* handle_network_event, NetworkEvent::MessageReceived: the App after the event.
\* store_message fails on a stored id and the rest of the arm is skipped.
handle_MessageReceived(a, message) ==
    LET stored == store_message(a.storage, message)
    IN  IF stored.ok
        THEN [peer_id |-> a.peer_id,
              channels |-> a.channels \cup {message.channel_id},
              storage |-> stored.storage,
              dag |-> add_message(a.dag, message).dag,
              vector_clock |-> VectorClock_merge(a.vector_clock, message.vector_clock),
              lamport_clock |->
                  IF message.lamport_timestamp >= a.lamport_clock
                  THEN message.lamport_timestamp + 1
                  ELSE a.lamport_clock]
        ELSE [a EXCEPT !.channels = @ \cup {message.channel_id}]

\* handle_network_event, NetworkEvent::MessagesReceived: the App after the event.
handle_MessagesReceived(a, messages) ==
    [a EXCEPT !.storage = store_messages(@, messages),
              !.dag = AddAll(@, messages)]

\* The App of the receiver after handle_network_event has processed frame f; the
\* inventory and request arms only publish frames.
handle_network_event(a, f) ==
    CASE f.type = "ChatMessage" -> handle_MessageReceived(a, f.message)
      [] f.type = "MessageResponse" -> handle_MessagesReceived(a, f.messages)
      [] OTHER -> a

\* NetworkEvent::MessageReceived: a ChatMessage frame reaches f.to.
Handle_ChatMessage(f) ==
    /\ f \in net /\ f.type = "ChatMessage"
    /\ app' = [app EXCEPT ![f.to] = handle_MessageReceived(@, f.message)]
    /\ net' = net \ {f}
    /\ UNCHANGED <<nextId, lost, orsetVars, lwwVars, chanVars, dagVars, hlcVars, vcVars>>

\* NetworkEvent::InventoryRequested: GossipManager::send_inventory.
Handle_InventoryRequest(f) ==
    /\ f \in net /\ f.type = "InventoryRequest"
    /\ net' = (net \ {f}) \cup
                {MessageInventory(p, f.channel_id,
                    get_channel_message_ids(app[f.to].storage, f.channel_id)) :
                 p \in Others(f.to)}
    /\ UNCHANGED <<app, nextId, lost, orsetVars, lwwVars, chanVars, dagVars, hlcVars, vcVars>>

\* A handle_inventory that requests every id of the inventory.
handle_inventory_request_all(their_message_ids, d) ==
    IF their_message_ids # {} THEN Orderings(their_message_ids) ELSE {}

\* GossipManager::handle_inventory: the message_ids vectors the RequestMessages
\* command can carry (the difference of two HashSets collected into a Vec), no
\* vector when no command is sent.
handle_inventory(their_message_ids, d) ==
    LET missing == their_message_ids \ all_message_ids(d)
    IN  IF missing # {} THEN Orderings(missing) ELSE {}

\* NetworkEvent::InventoryReceived: GossipManager::handle_inventory.
Handle_MessageInventory(f) ==
    /\ f \in net /\ f.type = "MessageInventory"
    /\ LET requests == handle_inventory(f.message_ids, app[f.to].dag)
       IN  IF requests # {}
           THEN \E message_ids \in requests :
                   net' = (net \ {f}) \cup
                            {MessageRequest(p, f.channel_id, message_ids) :
                             p \in Others(f.to)}
           ELSE net' = net \ {f}
    /\ UNCHANGED <<app, nextId, lost, orsetVars, lwwVars, chanVars, dagVars, hlcVars, vcVars>>

\* NetworkEvent::MessageRequested: GossipManager::handle_message_request.
Handle_MessageRequest(f) ==
    /\ f \in net /\ f.type = "MessageRequest"
    /\ LET messages == get_messages_by_ids(app[f.to].storage, f.requested_ids)
       IN  IF messages # <<>>
           THEN net' = (net \ {f}) \cup
                         {MessageResponse(p, f.channel_id, messages) :
                          p \in Others(f.to)}
           ELSE net' = net \ {f}
    /\ UNCHANGED <<app, nextId, lost, orsetVars, lwwVars, chanVars, dagVars, hlcVars, vcVars>>

\* handle_network_event, NetworkEvent::MessagesReceived: the frames the arm
\* publishes for replica r. It sends no NetworkCommand;
\* GossipManager::detect_and_request_missing has no caller.
published_MessagesReceived(r, a, messages) == {}

\* NetworkEvent::MessagesReceived: store_messages, then add_message for each.
Handle_MessageResponse(f) ==
    /\ f \in net /\ f.type = "MessageResponse"
    /\ app' = [app EXCEPT ![f.to] = handle_MessagesReceived(@, f.messages)]
    /\ net' = (net \ {f}) \cup published_MessagesReceived(f.to, app[f.to], f.messages)
    /\ UNCHANGED <<nextId, lost, orsetVars, lwwVars, chanVars, dagVars, hlcVars, vcVars>>

\* The transport drops a frame (no connected peer at publish time, or a
\* connection that closes before delivery).
LoseFrame(f) ==
    /\ f \in net
    /\ lost < MaxLoss
    /\ net' = net \ {f}
    /\ lost' = lost + 1
    /\ UNCHANGED <<app, nextId, orsetVars, lwwVars, chanVars, dagVars, hlcVars, vcVars>>

\* The events handle_network_event receives at replica r, one per frame
\* addressed to r (network/mod.rs maps each NetworkMessage to its event).
MessageReceived(r) == \E f \in net : f.to = r /\ Handle_ChatMessage(f)

InventoryRequested(r) == \E f \in net : f.to = r /\ Handle_InventoryRequest(f)

InventoryReceived(r) == \E f \in net : f.to = r /\ Handle_MessageInventory(f)

MessageRequested(r) == \E f \in net : f.to = r /\ Handle_MessageRequest(f)

MessagesReceived(r) == \E f \in net : f.to = r /\ Handle_MessageResponse(f)

Lose(r) == \E f \in net : f.to = r /\ LoseFrame(f)

NextSync ==
    \/ \E r \in Peers : \E c \in Channels : SendMessage(r, c)
    \/ \E r \in Peers : PeerConnected(r)
    \/ \E r \in Peers : MessageReceived(r)
    \/ \E r \in Peers : InventoryRequested(r)
    \/ \E r \in Peers : InventoryReceived(r)
    \/ \E r \in Peers : MessageRequested(r)
    \/ \E r \in Peers : MessagesReceived(r)
    \/ \E r \in Peers : Lose(r)

SpecSync == InitSync /\ [][NextSync]_vars

(***************************************************************************)
(* Fairness: every replica keeps starting inventory rounds (PeerConnected  *)
(* recurs) and every frame that stays in flight is delivered.  Authoring   *)
(* stops after MaxAuthored messages and loss after MaxLoss frames.         *)
(***************************************************************************)
AuthoredIds == 1..MaxAuthored

IdSeqs == UNION {{seq \in [1..n -> AuthoredIds] :
                    \A i, j \in 1..n : seq[i] = seq[j] => i = j} :
                 n \in 1..MaxAuthored}

IdsOf(messages) == [i \in DOMAIN messages |-> messages[i].id]

FairSync ==
    /\ \A r \in Peers : WF_vars(PeerConnected(r))
    /\ \A r \in Peers : \A i \in AuthoredIds :
          WF_vars(\E f \in net : /\ f.type = "ChatMessage" /\ f.to = r
                                 /\ f.message.id = i
                                 /\ Handle_ChatMessage(f))
    /\ \A r \in Peers : \A c \in Channels :
          WF_vars(Handle_InventoryRequest(InventoryRequest(r, c)))
    /\ \A r \in Peers : \A c \in Channels : \A ids \in SUBSET AuthoredIds :
          WF_vars(Handle_MessageInventory(MessageInventory(r, c, ids)))
    /\ \A r \in Peers : \A c \in Channels : \A ids \in IdSeqs :
          WF_vars(Handle_MessageRequest(MessageRequest(r, c, ids)))
    /\ \A r \in Peers : \A c \in Channels : \A ids \in IdSeqs :
          WF_vars(\E f \in net : /\ f.type = "MessageResponse" /\ f.to = r
                                 /\ f.channel_id = c /\ IdsOf(f.messages) = ids
                                 /\ Handle_MessageResponse(f))

FairSpecSync == SpecSync /\ FairSync

\* Every replica's DAG holds the same messages of every channel and orders them
\* the same.
Converged ==
    \A r, q \in Peers : \A c \in Channels :
        /\ {app[r].dag.messages[x] : x \in StoredIn(app[r].dag, c)}
             = {app[q].dag.messages[x] : x \in StoredIn(app[q].dag, c)}
        /\ get_ordered_messages(app[r].dag, c) = get_ordered_messages(app[q].dag, c)

\* C1: eventual convergence. Once authoring and loss have stopped and replicas
\* keep performing inventory rounds whose frames are delivered, from some point
\* on every replica's DAG holds the same set of messages for each channel and
\* get_ordered_messages(c) is the same sequence on all of them.
C1_Convergence == <>[]Converged

(***************************************************************************)
(* Claims on LWWRegister::merge and on the rename race.                    *)
(***************************************************************************)
\* C11: LWWRegister.merge is idempotent, commutative (a.merge(b) and b.merge(a)
\* end with the same value and timestamp) and associative, for arbitrary
\* registers, equal timestamps with different values included.
C11_MergeLaws ==
    \A i \in Regs, j \in Regs, c \in Registers :
        LET a == reg[i]
            b == reg[j]
        IN  /\ LWWRegister_merge(a, a) = a
            /\ LWWRegister_merge(a, b) = LWWRegister_merge(b, a)
            /\ LWWRegister_merge(LWWRegister_merge(a, b), c)
                 = LWWRegister_merge(a, LWWRegister_merge(b, c))

\* C12: rename race. When replicas a and b have each renamed their copy of the
\* channel, at timestamps t1 and t2, then after the mutual merge both hold the
\* same name, the one written at max(t1, t2).
C12_RenameRace ==
    \A a \in Peers, b \in Peers, now1 \in Physical, now2 \in Physical :
        (a # b /\ renamed[a].set /\ renamed[b].set
            /\ chan[a] # NoChannel /\ chan[b] # NoChannel)
        => LET a2 == Channel_merge(chan[a], chan[b], now1)
               b2 == Channel_merge(chan[b], a2, now2)
               t1 == renamed[a].timestamp
               t2 == renamed[b].timestamp
           IN  /\ Channel_get_name(a2) = Channel_get_name(b2)
               /\ TsLess(t1, t2) => Channel_get_name(a2) = renamed[b].value
               /\ TsLess(t2, t1) => Channel_get_name(a2) = renamed[a].value

(***************************************************************************)
(* HLC specification: one HybridLogicalClock, ticked and updated with      *)
(* arbitrary wall-clock readings (they may go backwards) and arbitrary     *)
(* remote timestamps.  clockOp keeps the last call: its wall-clock         *)
(* reading, the clock before it, the timestamp returned and the set of     *)
(* timestamps tick and update returned before it.                          *)
(***************************************************************************)
InitOther_HLC ==
    /\ sets = <<>> /\ nextTag = 0 /\ observed = <<>> /\ reg = <<>> /\ regOp = <<>>
    /\ chan = <<>> /\ renamed = <<>> /\ dag = <<>> /\ result = <<>>
    /\ app = <<>> /\ net = {} /\ nextId = 0 /\ lost = 0
    /\ vc = <<>> /\ vcOp = <<>>

InitHLC ==
    /\ \E peer_id \in Peers, now \in Physical :
          clock = HybridLogicalClock_new(peer_id, now)
    /\ clockOp = [kind |-> "new", returned |-> {}]
    /\ InitOther_HLC

\* let t = hlc.tick() with SystemTime::now() reading `now`.
Tick(now) ==
    /\ HybridLogicalClock_tick(clock, now).latest.logical <= MaxLogical + 1
    /\ clock' = HybridLogicalClock_tick(clock, now)
    /\ clockOp' = [kind |-> "tick", now |-> now, before |-> clock,
                   ret |-> HybridLogicalClock_tick(clock, now).latest,
                   earlier |-> clockOp.returned,
                   returned |-> clockOp.returned
                                  \cup {HybridLogicalClock_tick(clock, now).latest}]
    /\ UNCHANGED <<orsetVars, lwwVars, chanVars, dagVars, syncVars, vcVars>>

\* let t = hlc.update(remote) with SystemTime::now() reading `now`.
Update(remote, now) ==
    /\ HybridLogicalClock_update(clock, remote, now).latest.logical <= MaxLogical + 1
    /\ clock' = HybridLogicalClock_update(clock, remote, now)
    /\ clockOp' = [kind |-> "update", now |-> now, before |-> clock, remote |-> remote,
                   ret |-> HybridLogicalClock_update(clock, remote, now).latest,
                   earlier |-> clockOp.returned,
                   returned |-> clockOp.returned
                                  \cup {HybridLogicalClock_update(clock, remote, now).latest}]
    /\ UNCHANGED <<orsetVars, lwwVars, chanVars, dagVars, syncVars, vcVars>>

NextHLC ==
    \/ \E now \in Physical : Tick(now)
    \/ \E remote \in Timestamps, now \in Physical : Update(remote, now)

SpecHLC == InitHLC /\ [][NextHLC]_vars

\* C13: HLC tick monotonicity. The timestamp tick() returns is strictly greater
\* than every timestamp this clock returned earlier, from tick or from update,
\* whatever the wall-clock readings were, and it is the clock's latest.
C13_TickMonotone ==
    clockOp.kind = "tick" =>
        /\ \A t \in clockOp.earlier : TsLess(t, clockOp.ret)
        /\ TsLess(clockOp.before.latest, clockOp.ret)
        /\ clock.latest = clockOp.ret

\* A tick whose wall-clock reading is behind the clock's physical time, after
\* an update raised the clock: the logical counter carries the order.
C13_Witness ==
    /\ clockOp.kind = "tick"
    /\ clockOp.now < clockOp.before.latest.physical
    /\ \E t \in clockOp.earlier : t.physical = clockOp.before.latest.physical
    /\ clockOp.ret.physical = clockOp.before.latest.physical
    /\ clockOp.ret.logical = clockOp.before.latest.logical + 1

\* C14: HLC update. The timestamp update(r) returns, and stores as latest, is
\* strictly greater than r and than every timestamp this clock returned
\* earlier, for every remote timestamp and wall-clock reading.
C14_UpdateGreater ==
    clockOp.kind = "update" =>
        /\ TsLess(clockOp.remote, clockOp.ret)
        /\ \A t \in clockOp.earlier : TsLess(t, clockOp.ret)
        /\ TsLess(clockOp.before.latest, clockOp.ret)
        /\ clock.latest = clockOp.ret

\* An update with a remote timestamp ahead of both the clock and the wall
\* clock, from a peer with a greater peer_id, after an earlier tick.
C14_Witness ==
    /\ clockOp.kind = "update"
    /\ clockOp.earlier # {}
    /\ clockOp.remote.physical > clockOp.before.latest.physical
    /\ clockOp.remote.physical > clockOp.now
    /\ clockOp.remote.logical > clockOp.before.latest.logical
    /\ clockOp.remote.peer_id > clock.peer_id
    /\ clockOp.ret.physical = clockOp.remote.physical
    /\ clockOp.ret.logical = clockOp.remote.logical + 1

(***************************************************************************)
(* VectorClock specification: clocks reached by increment and merge.       *)
(***************************************************************************)
\* Every value a VectorClock can hold within the bound; the field is public
\* and deserialized, so an entry may be an explicit 0.
VectorClocks == UNION {[D -> 0..MaxClock] : D \in SUBSET Peers}

Clocks == {1, 2}

InitOther_VC ==
    /\ sets = <<>> /\ nextTag = 0 /\ observed = <<>> /\ reg = <<>> /\ regOp = <<>>
    /\ chan = <<>> /\ renamed = <<>> /\ dag = <<>> /\ result = <<>>
    /\ app = <<>> /\ net = {} /\ nextId = 0 /\ lost = 0
    /\ clock = <<>> /\ clockOp = <<>>

InitVC ==
    /\ vc = [i \in Clocks |-> VectorClock_new]
    /\ vcOp = [kind |-> "new"]
    /\ InitOther_VC

\* vc[i].increment(peer_id)
VcIncrement(i, peer_id) ==
    /\ VectorClock_get(vc[i], peer_id) < MaxClock
    /\ vc' = [vc EXCEPT ![i] = VectorClock_increment(vc[i], peer_id)]
    /\ vcOp' = [kind |-> "increment", i |-> i, peer_id |-> peer_id, before |-> vc]
    /\ UNCHANGED <<orsetVars, lwwVars, chanVars, dagVars, syncVars, hlcVars>>

\* vc[i].merge(&vc[j])
VcMerge(i, j) ==
    /\ i # j
    /\ vc' = [vc EXCEPT ![i] = VectorClock_merge(vc[i], vc[j])]
    /\ vcOp' = [kind |-> "merge", i |-> i, j |-> j, before |-> vc]
    /\ UNCHANGED <<orsetVars, lwwVars, chanVars, dagVars, syncVars, hlcVars>>

NextVC ==
    \/ \E i \in Clocks, peer_id \in Peers : VcIncrement(i, peer_id)
    \/ \E i \in Clocks, j \in Clocks : VcMerge(i, j)

SpecVC == InitVC /\ [][NextVC]_vars

\* C15: VectorClock order. happened_before(a, b) holds exactly when
\* a[p] <= b[p] for every peer p and a[p] < b[p] for some p, a missing entry
\* read as 0; it is irreflexive and asymmetric, and concurrent is symmetric.
C15_HappenedBefore ==
    \A i \in Clocks, b \in VectorClocks \cup {vc[j] : j \in Clocks} :
        LET a == vc[i]
        IN  /\ VectorClock_happened_before(a, b)
                 <=> /\ \A p \in Peers : VectorClock_get(a, p) <= VectorClock_get(b, p)
                     /\ \E p \in Peers : VectorClock_get(a, p) < VectorClock_get(b, p)
            /\ VectorClock_happened_before(b, a)
                 <=> /\ \A p \in Peers : VectorClock_get(b, p) <= VectorClock_get(a, p)
                     /\ \E p \in Peers : VectorClock_get(b, p) < VectorClock_get(a, p)
            /\ ~VectorClock_happened_before(a, a)
            /\ VectorClock_happened_before(a, b) => ~VectorClock_happened_before(b, a)
            /\ VectorClock_concurrent(a, b) = VectorClock_concurrent(b, a)

\* Two clocks built by increments where one happened before the other only
\* through a peer the first has no entry for (as in the repository's test).
C15_Witness ==
    /\ vcOp.kind = "increment"
    /\ \E p \in Peers : p \notin DOMAIN vc[1] /\ p \in DOMAIN vc[2]
    /\ DOMAIN vc[1] # {}
    /\ \A p \in DOMAIN vc[1] : vc[1][p] = VectorClock_get(vc[2], p)
    /\ VectorClock_happened_before(vc[1], vc[2])
    /\ ~VectorClock_happened_before(vc[2], vc[1])

\* C16: VectorClock.merge is the component-wise maximum. After a.merge(b),
\* a[p] = max(old a[p], b[p]) for every peer p and b is unchanged; the merged
\* clock never happened before either input; merge is idempotent and
\* commutative.
C16_MergeMax ==
    /\ vcOp.kind = "merge" =>
          LET a == vcOp.before[vcOp.i]
              b == vcOp.before[vcOp.j]
          IN  /\ \A p \in Peers :
                    VectorClock_get(vc[vcOp.i], p)
                      = Max2(VectorClock_get(a, p), VectorClock_get(b, p))
              /\ vc[vcOp.j] = b
              /\ ~VectorClock_happened_before(vc[vcOp.i], a)
              /\ ~VectorClock_happened_before(vc[vcOp.i], b)
    /\ \A i \in Clocks, b \in VectorClocks \cup {vc[j] : j \in Clocks} :
          LET a == vc[i]
              m == VectorClock_merge(a, b)
          IN  /\ \A p \in Peers :
                    VectorClock_get(m, p)
                      = Max2(VectorClock_get(a, p), VectorClock_get(b, p))
              /\ ~VectorClock_happened_before(m, a)
              /\ ~VectorClock_happened_before(m, b)
              /\ VectorClock_merge(a, a) = a
              /\ VectorClock_merge(m, b) = m
              /\ VectorClock_merge(b, a) = m

\* A merge of two clocks that each lead on one peer (as in the repository's
\* test): the result holds the greater value of each and differs from both.
C16_Witness ==
    /\ vcOp.kind = "merge"
    /\ \E p \in Peers, q \in Peers :
          /\ VectorClock_get(vcOp.before[vcOp.i], p) > VectorClock_get(vcOp.before[vcOp.j], p)
          /\ VectorClock_get(vcOp.before[vcOp.i], q) < VectorClock_get(vcOp.before[vcOp.j], q)
          /\ VectorClock_get(vcOp.before[vcOp.j], p) > 0
          /\ vc[vcOp.i][p] = vcOp.before[vcOp.i][p]
          /\ vc[vcOp.i][q] = vcOp.before[vcOp.j][q]

(***************************************************************************)
(* dag/mod.rs: load_messages.  The vector is sorted by created_at with a   *)
(* stable sort; created_at is the author's wall clock, so the sorted       *)
(* vector can be in any order, and the operator takes it already sorted.   *)
(***************************************************************************)
MaxLoaded == 2
MaxLoadCalls == 2

\* load_messages, lines 221-236: one iteration of the first pass.
LoadOne(d, message) ==
    LET known == {x \in Range(message.parent_hashes) : x \in DOMAIN d.messages}
    IN  [messages |-> [x \in DOMAIN d.messages \cup {message.id} |->
                          IF x = message.id THEN message ELSE d.messages[x]],
         children |-> [x \in DOMAIN d.children \cup known |->
                          IF x \in known
                          THEN MapGet(d.children, x) \cup {message.id}
                          ELSE d.children[x]],
         heads |-> d.heads]

RECURSIVE LoadAll(_, _)
LoadAll(d, sorted_messages) ==
    IF sorted_messages = <<>> THEN d
    ELSE LoadAll(LoadOne(d, Head(sorted_messages)), Tail(sorted_messages))

\* load_messages, lines 238-250: the second pass, heads rebuilt from scratch.
RebuildHeads(d) ==
    LET childless == {x \in DOMAIN d.messages : MapGet(d.children, x) = {}}
    IN  [d EXCEPT !.heads =
            [c \in {d.messages[x].channel_id : x \in childless} |->
                {x \in childless : d.messages[x].channel_id = c}]]

load_messages(d, sorted_messages) == RebuildHeads(LoadAll(d, sorted_messages))

\* What storage.get_channel_messages(channel_id) hands to load_messages: rows
\* of the messages table of one channel, whose primary key is the id, none of
\* them in the DAG yet.
LoadVectors(d, channel_id) ==
    {ms \in UNION {[1..n -> Messages] : n \in 0..MaxLoaded} :
        /\ \A i \in DOMAIN ms : ms[i].channel_id = channel_id
        /\ \A i \in DOMAIN ms : ms[i].id \notin DOMAIN d.messages
        /\ \A i \in DOMAIN ms, j \in DOMAIN ms : i # j => ms[i].id # ms[j].id}

\* App::new, tui/mod.rs 127-134: at startup, before any add_message, the DAG
\* loads what storage holds, one channel after the other.
LoadMessages(channel_id) ==
    /\ \/ result.ret.kind = "None"
       \/ result.ret.kind = "Loaded" /\ result.channel_id < channel_id
    /\ result.n < MaxLoadCalls
    /\ \E ms \in LoadVectors(dag, channel_id) :
          /\ dag' = load_messages(dag, ms)
          /\ result' = [n |-> result.n + 1, channel_id |-> channel_id,
                        messages |-> ms, before |-> dag,
                        ret |-> [kind |-> "Loaded"]]
    /\ UNCHANGED <<orsetVars, lwwVars, chanVars, syncVars, hlcVars, vcVars>>

\* add_message on the DAG that App::new loaded.
AddLoaded(message) ==
    /\ result.ret.kind # "None"
    /\ result.n < MaxLoadCalls
    /\ AddMessage(message)

NextDagLoad ==
    \/ \E channel_id \in Channels : LoadMessages(channel_id)
    \/ \E message \in Messages : AddLoaded(message)

SpecDagLoad == InitDag /\ [][NextDagLoad]_vars

\* C17: find_missing_messages() returns exactly the ids that occur in
\* parent_hashes of some stored message and are not themselves stored, in every
\* DAG state, those that load_messages produces included.
C17_FindMissing ==
    \A p \in MsgIds :
        p \in find_missing_messages(dag)
            <=> /\ ~has_message(dag, p)
                /\ \E x \in all_message_ids(dag) :
                      \E i \in DOMAIN dag.messages[x].parent_hashes :
                          dag.messages[x].parent_hashes[i] = p

\* A loaded DAG in which a stored message names a stored and an absent parent,
\* the absent one second, and add_message has been called since.
C17_Witness ==
    /\ result.n > 1
    /\ result.ret.kind = "Ok"
    /\ \E x \in all_message_ids(dag) :
          /\ Len(dag.messages[x].parent_hashes) = 2
          /\ has_message(dag, dag.messages[x].parent_hashes[1])
          /\ ~has_message(dag, dag.messages[x].parent_hashes[2])
          /\ find_missing_messages(dag) = {dag.messages[x].parent_hashes[2]}

(***************************************************************************)
(* Delivery properties of the sync engine, stated on the frames in flight: *)
(* what handle_network_event would make of the receiver's App.             *)
(***************************************************************************)
\* The replicated message state of an App: the persisted messages, the messages
\* of the DAG and the heads of every channel.
ReplicatedState(a) ==
    [storage |-> a.storage,
     messages |-> a.dag.messages,
     heads |-> [c \in Channels |-> get_heads(a.dag, c)]]

\* The DAG state of an App: stored messages and heads per channel.
DagState(a) ==
    [messages |-> a.dag.messages,
     heads |-> [c \in Channels |-> get_heads(a.dag, c)]]

\* C18: frame idempotency. Delivering to a replica a frame it has already
\* processed leaves its replicated state (stored messages, heads of every
\* channel) the same as after the first delivery.
C18_FrameIdempotent ==
    \A f \in net :
        LET once == handle_network_event(app[f.to], f)
            twice == handle_network_event(once, f)
        IN  ReplicatedState(twice) = ReplicatedState(once)

\* C19: order independence of delivery. Two inbound message frames for one
\* replica leave it with the same DAG state (stored messages and heads per
\* channel) in whichever order they are processed.
C19_OrderIndependent ==
    \A f \in net, g \in net :
        (/\ f.to = g.to
         /\ f.type \in {"ChatMessage", "MessageResponse"}
         /\ g.type \in {"ChatMessage", "MessageResponse"})
        => DagState(handle_network_event(handle_network_event(app[f.to], f), g))
             = DagState(handle_network_event(handle_network_event(app[f.to], g), f))

\* C20: out-of-order recovery. When a MessageResponse of an inventory round
\* brings a replica a message it has persisted but not admitted, together with
\* every parent the replica lacks, the replica's DAG holds all of them after
\* the response is processed.
C20_Recovery ==
    \A f \in net :
        f.type = "MessageResponse" =>
            LET a == app[f.to]
                ids == {f.messages[i].id : i \in DOMAIN f.messages}
                after == handle_network_event(a, f)
            IN  (/\ \E x \in ids : x \in DOMAIN a.storage /\ ~has_message(a.dag, x)
                 /\ \A i \in DOMAIN f.messages :
                       Range(f.messages[i].parent_hashes)
                           \subseteq all_message_ids(a.dag) \cup ids)
                => \A x \in ids : has_message(after.dag, x)

(***************************************************************************)
(* Channel frames: create_channel_from_modal, the placeholder branch of    *)
(* MessageReceived and the four channel arms of handle_network_event       *)
(* (tui/mod.rs), over one channel id.  `net` holds the channel frames in   *)
(* flight, `chan` each replica's copy (memory and the channels table hold  *)
(* the same value: store_channel writes the whole bincode state and        *)
(* get_all_channels reads it back).  The application publishes only        *)
(* ChannelAnnounce; the other frames come from peers that rename a         *)
(* channel, request its state or answer a request.                         *)
(***************************************************************************)
MaxPublished == 3

ChannelAnnounce(to, channel) ==
    [type |-> "ChannelAnnounce", to |-> to, channel |-> channel]

ChannelStateRequest(to, channel_id) ==
    [type |-> "ChannelStateRequest", to |-> to, channel_id |-> channel_id]

ChannelStateResponse(to, channel) ==
    [type |-> "ChannelStateResponse", to |-> to, channel |-> channel]

ChannelUpdate(to, channel) ==
    [type |-> "ChannelUpdate", to |-> to, channel |-> channel]

\* format!("channel-{}", &channel_id_short[..8]) for the channel id of the model.
PlaceholderName == "channel-00000001"

\* NetworkEvent::ChannelUpdated: merge into the local copy when the id is
\* known; there is no else branch.
handle_ChannelUpdated(local, channel, now) ==
    IF local.id = channel.id THEN Channel_merge(local, channel, now) ELSE local

\* NetworkEvent::ChannelStateRequested: the frames handed to the network layer.
\* The arm builds the response, logs it and sends nothing.
handle_ChannelStateRequested(r, local, channel_id) == {}

InitOther_Frames ==
    /\ sets = <<>> /\ observed = <<>> /\ reg = <<>> /\ regOp = <<>>
    /\ dag = <<>> /\ result = <<>> /\ app = <<>> /\ lost = 0
    /\ clock = <<>> /\ clockOp = <<>> /\ vc = <<>> /\ vcOp = <<>>
    /\ renamed = <<>>

InitFrames ==
    /\ chan = [r \in Peers |-> NoChannel]
    /\ net = {}
    /\ nextId = 0
    /\ nextTag = 1
    /\ InitOther_Frames

\* create_channel_from_modal: Channel::new, store_channel, AnnounceChannel.
CreateChannel(r, name, now) ==
    /\ \A q \in Peers : chan[q] = NoChannel
    /\ nextId < MaxPublished
    /\ chan' = [chan EXCEPT ![r] = Channel_new(1, name, r, now, nextTag)]
    /\ nextTag' = nextTag + 1
    /\ net' = net \cup {ChannelAnnounce(p, Channel_new(1, name, r, now, nextTag)) :
                          p \in Others(r)}
    /\ nextId' = nextId + 1
    /\ UNCHANGED <<renamed, sets, observed, lwwVars, dagVars, app, lost, hlcVars, vcVars>>

\* NetworkEvent::MessageReceived, lines 283-302: a message of the channel,
\* written by `author`, reaches a replica that does not know the channel.
PlaceholderCreated(r, author, now) ==
    /\ chan[r] = NoChannel
    /\ chan[author] # NoChannel
    /\ chan' = [chan EXCEPT ![r] = Channel_placeholder(1, PlaceholderName, author, now)]
    /\ UNCHANGED <<renamed, sets, nextTag, observed, lwwVars, dagVars, syncVars, hlcVars, vcVars>>

\* A peer renames its copy and publishes it (NetworkCommand::BroadcastChannelUpdate).
BroadcastChannelUpdate(q, name, now) ==
    /\ chan[q] # NoChannel
    /\ nextId < MaxPublished
    /\ Channel_set_name(chan[q], name, now).hlc.latest.logical <= MaxLogical
    /\ chan' = [chan EXCEPT ![q] = Channel_set_name(@, name, now)]
    /\ net' = net \cup {ChannelUpdate(p, Channel_set_name(chan[q], name, now)) :
                          p \in Others(q)}
    /\ nextId' = nextId + 1
    /\ UNCHANGED <<renamed, sets, nextTag, observed, lwwVars, dagVars, app, lost, hlcVars, vcVars>>

\* A peer asks for the state of a channel (NetworkCommand::RequestChannelState).
RequestChannelState(q, channel_id) ==
    /\ nextId < MaxPublished
    /\ net' = net \cup {ChannelStateRequest(p, channel_id) : p \in Others(q)}
    /\ nextId' = nextId + 1
    /\ UNCHANGED <<chanVars, sets, nextTag, observed, lwwVars, dagVars, app, lost, hlcVars, vcVars>>

\* A peer that answers state requests publishes its copy.
RespondChannelState(q) ==
    /\ chan[q] # NoChannel
    /\ nextId < MaxPublished
    /\ net' = net \cup {ChannelStateResponse(p, chan[q]) : p \in Others(q)}
    /\ nextId' = nextId + 1
    /\ UNCHANGED <<chanVars, sets, nextTag, observed, lwwVars, dagVars, app, lost, hlcVars, vcVars>>

\* The channel frame f is handled by its receiver: the receiver's copy becomes
\* `local` and the frames `emitted` are published.
HandleFrame(f, local, emitted) ==
    /\ local # NoChannel => local.hlc.latest.logical <= MaxLogical
    /\ chan' = [chan EXCEPT ![f.to] = local]
    /\ net' = (net \ {f}) \cup emitted
    /\ UNCHANGED <<renamed, sets, nextTag, observed, lwwVars, dagVars, app, nextId, lost,
                   hlcVars, vcVars>>

ChannelAnnounced(r, now) ==
    \E f \in net :
        /\ f.to = r /\ f.type = "ChannelAnnounce"
        /\ HandleFrame(f, ChannelReceived(chan[r], f.channel, now), {})

ChannelStateReceived(r, now) ==
    \E f \in net :
        /\ f.to = r /\ f.type = "ChannelStateResponse"
        /\ HandleFrame(f, ChannelReceived(chan[r], f.channel, now), {})

ChannelUpdated(r, now) ==
    \E f \in net :
        /\ f.to = r /\ f.type = "ChannelUpdate"
        /\ HandleFrame(f, handle_ChannelUpdated(chan[r], f.channel, now), {})

ChannelStateRequested(r) ==
    \E f \in net :
        /\ f.to = r /\ f.type = "ChannelStateRequest"
        /\ HandleFrame(f, chan[r], handle_ChannelStateRequested(r, chan[r], f.channel_id))

NextFrames ==
    \/ \E r \in Peers, name \in Names, now \in Physical : CreateChannel(r, name, now)
    \/ \E r \in Peers, author \in Peers, now \in Physical : PlaceholderCreated(r, author, now)
    \/ \E q \in Peers, name \in Names, now \in Physical : BroadcastChannelUpdate(q, name, now)
    \/ \E q \in Peers, channel_id \in Channels : RequestChannelState(q, channel_id)
    \/ \E q \in Peers : RespondChannelState(q)
    \/ \E r \in Peers, now \in Physical : ChannelAnnounced(r, now)
    \/ \E r \in Peers, now \in Physical : ChannelStateReceived(r, now)
    \/ \E r \in Peers, now \in Physical : ChannelUpdated(r, now)
    \/ \E r \in Peers : ChannelStateRequested(r)

SpecFrames == InitFrames /\ [][NextFrames]_vars

\* The copy is a placeholder that nothing has touched since it was created.
IsPlaceholder(c) ==
    /\ c # NoChannel
    /\ \E author \in Peers, now \in Physical :
          c = Channel_placeholder(c.id, PlaceholderName, author, now)

\* C21: placeholder resolution. When a replica that holds a placeholder for a
\* channel handles the creator's ChannelAnnounce of that channel, its channel
\* name becomes the announced name and its member set the announced member set.
C21_PlaceholderResolved ==
    \A f \in net : \A now \in Physical :
        (/\ f.type = "ChannelAnnounce"
         /\ IsPlaceholder(chan[f.to])
         /\ chan[f.to].id = f.channel.id)
        => LET merged == ChannelReceived(chan[f.to], f.channel, now)
           IN  /\ Channel_get_name(merged) = Channel_get_name(f.channel)
               /\ Channel_get_members(merged) = Channel_get_members(f.channel)

\* The receiver's copy after handle_network_event has processed the channel
\* frame f at wall-clock reading now.
ChannelAfter(f, now) ==
    CASE f.type = "ChannelAnnounce" -> ChannelReceived(chan[f.to], f.channel, now)
      [] f.type = "ChannelStateResponse" -> ChannelReceived(chan[f.to], f.channel, now)
      [] f.type = "ChannelUpdate" -> handle_ChannelUpdated(chan[f.to], f.channel, now)

\* C22: channel frame handling. On each of ChannelAnnounce(c),
\* ChannelStateResponse(c) and ChannelUpdate(c), a locally known channel becomes
\* the merge of the local state with c, and an unknown one is stored as c.
C22_ChannelFrames ==
    \A f \in net : \A now \in Physical :
        f.type \in {"ChannelAnnounce", "ChannelStateResponse", "ChannelUpdate"}
        => ChannelAfter(f, now)
             = IF chan[f.to] # NoChannel /\ chan[f.to].id = f.channel.id
               THEN Channel_merge(chan[f.to], f.channel, now)
               ELSE f.channel

\* C23: a step that handles a ChannelStateRequest(id) publishes a
\* ChannelStateResponse with the local state when the channel is known locally,
\* and publishes nothing when it is not.
C23_StateRequestAnswered ==
    [][\A f \in net :
          (f.type = "ChannelStateRequest" /\ f \notin net')
          => IF chan[f.to] # NoChannel /\ chan[f.to].id = f.channel_id
             THEN \E g \in net' \ net :
                     /\ g.type = "ChannelStateResponse"
                     /\ g.channel = chan[f.to]
             ELSE net' \subseteq net]_vars

C25_InboundLamport ==
    \A f \in net :
        f.type = "ChatMessage"
        => handle_network_event(app[f.to], f).lamport_clock
             = Max2(app[f.to].lamport_clock, f.message.lamport_timestamp) + 1

\* Messages a peer can put in a frame under an id the replica already holds:
\* the held message with another lamport_timestamp or other parents.
Forged(a) ==
    {m \in UNION {{[a.dag.messages[x] EXCEPT !.lamport_timestamp = l] : l \in 1..MaxLamport + 1}
                    \cup {[a.dag.messages[x] EXCEPT !.parent_hashes = ps] :
                            ps \in {<<>>} \cup {<<y>> : y \in DOMAIN a.dag.messages \ {x}}} :
                  x \in DOMAIN a.dag.messages} :
        m # a.dag.messages[m.id]}

\* C27: messages are immutable. An inbound ChatMessage or MessageResponse that
\* carries a message whose id the replica already holds, with other content or
\* parents, is discarded: the message held under that id in the DAG and in the
\* repository stays as it was.
C27_Immutable ==
    \A r \in Peers : \A m \in Forged(app[r]) :
        \A f \in {ChatMessage(r, m), MessageResponse(r, m.channel_id, <<m>>)} :
            LET after == handle_network_event(app[r], f)
            IN  /\ after.dag.messages[m.id] = app[r].dag.messages[m.id]
                /\ after.storage[m.id] = app[r].storage[m.id]

\* C29: heads invariant over the sync engine. At every replica and for every
\* channel c, heads[c] is exactly the set of stored messages of channel c that
\* no stored message of channel c names as a parent.
C29_HeadsInvariant ==
    \A r \in Peers : \A c \in Channels :
        get_heads(app[r].dag, c)
          = {x \in StoredIn(app[r].dag, c) :
                \A y \in StoredIn(app[r].dag, c) :
                    x \notin Range(app[r].dag.messages[y].parent_hashes)}

\* The loop of MessagesReceived calls add_message with an id the DAG holds at
\* the time of the call.
RECURSIVE AddsStored(_, _)
AddsStored(d, messages) ==
    /\ messages # <<>>
    /\ \/ has_message(d, Head(messages).id)
       \/ AddsStored(add_message(d, Head(messages)).dag, Tail(messages))

\* C30: the sync engine never calls add_message with a message whose id is
\* already stored in the DAG: not for an inbound ChatMessage (add_message runs
\* only after store_message succeeded) and not for an inbound MessageResponse.
C30_NoReAdd ==
    \A f \in net :
        /\ f.type = "ChatMessage"
              => (store_message(app[f.to].storage, f.message).ok
                    => ~has_message(app[f.to].dag, f.message.id))
        /\ f.type = "MessageResponse" => ~AddsStored(app[f.to].dag, f.messages)

\* App::new, lines 127-134: load_messages once per channel, with the rows
\* get_channel_messages returns for it.
RECURSIVE LoadChannels(_, _)
LoadChannels(d, vectors) ==
    IF vectors = <<>> THEN d
    ELSE LoadChannels(load_messages(d, Head(vectors)), Tail(vectors))

\* The rows of each channel in an order the created_at values can give.
ChannelVectors(a) ==
    {v \in [a.channels -> UNION {Orderings(S) : S \in SUBSET DOMAIN a.storage}] :
        \A c \in a.channels : Range(v[c]) = get_channel_message_ids(a.storage, c)}

\* App::new on the database a replica left behind: the Apps a restart can
\* produce. Channels and messages come from storage, the DAG is loaded channel
\* by channel and lamport_clock is the literal 0.
App_restarted(a) ==
    {[peer_id |-> a.peer_id,
      channels |-> a.channels,
      storage |-> a.storage,
      vector_clock |-> VectorClock_increment(VectorClock_new, a.peer_id),
      dag |-> LoadChannels(MessageDAG_new,
                  [i \in DOMAIN cs |->
                      [j \in DOMAIN v[cs[i]] |-> a.storage[v[cs[i]][j]]]]),
      lamport_clock |-> 0] :
        cs \in Orderings(a.channels), v \in ChannelVectors(a)}

\* C28: clock monotonicity across restarts. The first message a replica authors
\* after a restart has a Lamport timestamp greater than that of a message it
\* authored before the restart.
C28_RestartMonotone ==
    \A r \in Peers : \A c \in app[r].channels :
        \A parent_hashes \in Orderings(get_heads(app[r].dag, c)) :
            LET before == send_message(app[r], nextId + 1, c, parent_hashes)
            IN  \A a \in App_restarted(before.app) : \A c2 \in a.channels :
                    \A parents2 \in Orderings(get_heads(a.dag, c2)) :
                        send_message(a, nextId + 2, c2, parents2).message.lamport_timestamp
                            > before.message.lamport_timestamp

\* The ids that persisted messages of a replica name as parents and that the
\* replica has not persisted.
MissingPersisted(a) ==
    {p \in UNION {Range(a.storage[x].parent_hashes) : x \in DOMAIN a.storage} :
        p \notin DOMAIN a.storage}

\* The batches a peer can answer a MessageRequest with: the messages it has
\* persisted, any of those that exist, in the order requested.
Batches ==
    LET existing == UNION {{app[q].storage[x] : x \in DOMAIN app[q].storage} : q \in Peers}
    IN  UNION {Orderings(S) : S \in SUBSET existing \ {{}}}

\* C26: when, after an inbound MessageResponse batch has been processed, some
\* message the replica holds still names a parent the replica does not hold,
\* the replica publishes a MessageRequest for the missing ids.
C26_RequestsMissing ==
    \A r \in Peers : \A messages \in Batches :
        LET after == handle_MessagesReceived(app[r], messages)
        IN  MissingPersisted(after) # {}
            => \E g \in published_MessagesReceived(r, app[r], messages) :
                  /\ g.type = "MessageRequest"
                  /\ Range(g.requested_ids) = MissingPersisted(after)

(***************************************************************************)
(* Bulk load, ordering and clock properties.                               *)
(***************************************************************************)
\* C31: bulk load rebuilds heads. After load_messages(ms) on an empty DAG, for
\* any order of the sorted vector, every message of ms is stored and heads[c]
\* is exactly the set of stored messages of channel c that no stored message
\* names as a parent.
C31_LoadHeads ==
    (result.ret.kind = "Loaded" /\ result.before = MessageDAG_new) =>
        /\ \A i \in DOMAIN result.messages :
              /\ has_message(dag, result.messages[i].id)
              /\ dag.messages[result.messages[i].id] = result.messages[i]
        /\ \A c \in Channels :
              get_heads(dag, c) =
                  {x \in StoredIn(dag, c) :
                      \A y \in DOMAIN dag.messages :
                          x \notin Range(dag.messages[y].parent_hashes)}

(***************************************************************************)
(* Ordering specification: add_message calls on one channel with enough    *)
(* message ids for two roots that each have a child; parent_hashes holds   *)
(* at most one id here.                                                    *)
(***************************************************************************)
MaxOrdered == 4

OrderedMessages ==
    {[id |-> i, channel_id |-> 1, lamport_timestamp |-> l, parent_hashes |-> ps] :
        i \in 1..MaxOrdered, l \in 1..MaxLamport,
        ps \in {<<>>} \cup {<<p>> : p \in 1..MaxOrdered}}

NextOrder == \E message \in OrderedMessages : AddMessage(message)

SpecOrder == InitDag /\ [][NextOrder]_vars

\* The longest distance of a stored message from a root, over parents of the
\* same channel that are stored.
RECURSIVE CausalDepth(_, _)
CausalDepth(d, message_id) ==
    LET parents == Range(d.messages[message_id].parent_hashes)
                      \cap StoredIn(d, d.messages[message_id].channel_id)
        depths == {CausalDepth(d, p) : p \in parents}
    IN  IF parents = {} THEN 0
        ELSE 1 + CHOOSE n \in depths : \A k \in depths : k <= n

\* C32: in every result of get_ordered_messages(c), any two messages with the
\* same causal depth appear in ascending (lamport_timestamp, id) order.
C32_DepthOrder ==
    \A c \in Channels : \A out \in get_ordered_messages(dag, c) :
        \A i \in DOMAIN out, j \in DOMAIN out :
            (i < j /\ CausalDepth(dag, out[i].id) = CausalDepth(dag, out[j].id))
                => MessageLess(out[i], out[j])

\* C33: OR-Set presence consistency. In every ORSet state reached from new()
\* by add, remove, remove_tag and merge, no element is mapped to an empty tag
\* set, contains(x) is true exactly for the elements that elements() returns,
\* and len() is their number.
C33_Presence ==
    \A r \in Peers :
        /\ \A x \in DOMAIN sets[r] : sets[r][x] # {}
        /\ \A x \in Peers : ORSet_contains(sets[r], x) <=> x \in ORSet_elements(sets[r])
        /\ ORSet_elements(sets[r]) = DOMAIN sets[r]
        /\ ORSet_len(sets[r]) = Cardinality(ORSet_elements(sets[r]))

\* remove_tag took the last tag of an element at a replica, which has no entry
\* for it, while the other replica still holds the element with that tag.
C33_Witness ==
    /\ DOMAIN result # {}
    /\ result.before = {result.tag}
    /\ result.element \notin DOMAIN sets[result.r]
    /\ \E q \in Peers \ {result.r} : result.tag \in ORSet_tags(sets[q], result.element)

\* The messages a replica has persisted that it authored itself.
AuthoredBy(a) == {x \in DOMAIN a.storage : a.storage[x].author = a.peer_id}

\* C34: outbound clock discipline. Each local send increases the replica's
\* Lamport counter by exactly 1 and its own vector-clock entry by exactly 1 and
\* stores both new values in the message; the k messages a fresh replica has
\* sent with no inbound message carry the Lamport timestamps 1, ..., k.
C34_OutboundClocks ==
    \A r \in Peers : \A c \in app[r].channels :
        \A parent_hashes \in Orderings(get_heads(app[r].dag, c)) :
            LET a == app[r]
                sent == send_message(a, nextId + 1, c, parent_hashes)
            IN  /\ sent.app.lamport_clock = a.lamport_clock + 1
                /\ VectorClock_get(sent.app.vector_clock, r)
                      = VectorClock_get(a.vector_clock, r) + 1
                /\ \A p \in Peers \ {r} :
                      VectorClock_get(sent.app.vector_clock, p)
                          = VectorClock_get(a.vector_clock, p)
                /\ sent.message.lamport_timestamp = sent.app.lamport_clock
                /\ sent.message.vector_clock = sent.app.vector_clock
                /\ sent.app.storage[nextId + 1] = sent.message
                /\ AuthoredBy(a) = DOMAIN a.storage =>
                      {sent.app.storage[x].lamport_timestamp : x \in DOMAIN sent.app.storage}
                          = 1..(Cardinality(DOMAIN a.storage) + 1)

\* Replica 1 has sent two messages and received none: they carry the Lamport
\* timestamps 1 and 2 and the vector-clock entries 2 and 3 (App::new already
\* counted 1), and its clocks stand at 2 and 3.
C34_Witness ==
    /\ DOMAIN app[1].storage = {1, 2}
    /\ AuthoredBy(app[1]) = {1, 2}
    /\ app[1].storage[1].lamport_timestamp = 1
    /\ app[1].storage[2].lamport_timestamp = 2
    /\ app[1].storage[1].vector_clock = <<2>>
    /\ app[1].storage[2].vector_clock = <<3>>
    /\ app[1].lamport_clock = 2
    /\ app[1].vector_clock = <<3>>

\* C35: on an inbound MessageInventory(c, theirs) the replica emits a
\* MessageRequest(c, missing) where missing is exactly the ids of theirs that
\* are not in its DAG, emits none when that difference is empty, and never
\* requests an id it has admitted.
C35_InventoryRequest ==
    \A f \in net :
        f.type = "MessageInventory" =>
            LET d == app[f.to].dag
                missing == {x \in f.message_ids : ~has_message(d, x)}
                requests == handle_inventory(f.message_ids, d)
            IN  /\ (requests = {}) <=> (missing = {})
                /\ \A message_ids \in requests :
                      /\ Range(message_ids) = missing
                      /\ Len(message_ids) = Cardinality(missing)
                      /\ \A i \in DOMAIN message_ids : ~has_message(d, message_ids[i])

\* A MessageRequest for message 2 alone is in flight to a replica that holds
\* messages 1 and 2, sent by the replica that has admitted message 1 only: its
\* answer to the inventory {1, 2}.
C35_Witness ==
    \E g \in net :
        /\ g.type = "MessageRequest"
        /\ g.requested_ids = <<2>>
        /\ DOMAIN app[g.to].storage = {1, 2}
        /\ \A r \in Others(g.to) : DOMAIN app[r].dag.messages = {1}

C37_SetNameTakesEffect ==
    \A r \in Peers :
        chan[r] # NoChannel =>
            /\ ~TsLess(chan[r].hlc.latest, chan[r].name.timestamp)
            /\ \A s \in Names, now \in Physical :
                  Channel_get_name(Channel_set_name(chan[r], s, now)) = s

\* A replica has merged a remote state: its HLC is past the timestamp of its
\* name, which lies ahead of the clock reading 0, and a set_name at reading 0
\* would still take effect.
C37_Witness ==
    \E r \in Peers :
        /\ chan[r] # NoChannel
        /\ chan[r].name.timestamp.physical = MaxPhysical
        /\ chan[r].name.timestamp.peer_id # r
        /\ TsLess(chan[r].name.timestamp, chan[r].hlc.latest)
        /\ \A s \in Names : Channel_get_name(Channel_set_name(chan[r], s, 0)) = s

\* C38: HLC timestamps are unique across replicas. Two different replicas of a
\* channel never stamp two different name changes with the same (physical,
\* logical, peer_id) timestamp, and the peer_id of a stamp is the id of the
\* replica that emitted it.
C38_UniqueStamps ==
    \A a \in Peers, b \in Peers :
        (a # b /\ renamed[a].set /\ renamed[b].set) =>
            /\ renamed[a].timestamp.peer_id = a
            /\ renamed[b].timestamp.peer_id = b
            /\ renamed[a].value # renamed[b].value
                  => renamed[a].timestamp # renamed[b].timestamp

\* The message a local send on channel c builds from the App a has a
\* lamport_timestamp above that of each of its parents, whatever order
\* get_heads returns them in.
SendAboveParents(a, id) ==
    \A c \in a.channels : \A parent_hashes \in Orderings(get_heads(a.dag, c)) :
        \A p \in Range(parent_hashes) :
            send_message(a, id, c, parent_hashes).message.lamport_timestamp
                > a.dag.messages[p].lamport_timestamp

\* C39: every locally authored message has a lamport_timestamp strictly greater
\* than that of each of its parents, whichever way the parents entered the DAG:
\* local send, inbound ChatMessage, inbound MessageResponse or bulk load.
C39_AboveParents ==
    \A r \in Peers :
        /\ SendAboveParents(app[r], nextId + 1)
        /\ \A a \in App_restarted(app[r]) : SendAboveParents(a, nextId + 1)

\* C40: get_ordered_messages(c) returns every stored message of channel c
\* exactly once and no message of another channel, in every reachable DAG
\* state, those with absent or foreign parents and with a parent listed twice
\* included.
C40_OrderedComplete ==
    \A c \in Channels : \A out \in get_ordered_messages(dag, c) :
        /\ {out[i].id : i \in DOMAIN out} = StoredIn(dag, c)
        /\ Len(out) = Cardinality(StoredIn(dag, c))
        /\ \A i \in DOMAIN out : out[i] = dag.messages[out[i].id]

====
